---------------------------- MODULE Spec2Model ----------------------------
(***************************************************************************)
(* Model of the Thorlabs filter-flipper driver                             *)
(* (instrumental/drivers/motion/filter_flipper.py).                        *)
(*                                                                         *)
(* One Filter_Flipper object drives one native handle.  Every native call  *)
(* the driver makes is appended to `log`; the repeated GetPosition calls   *)
(* of move_and_wait's polling loop are counted in `polls` instead, so that *)
(* the loop can run for any number of iterations.                          *)
(*                                                                         *)
(* Durations (pint quantities of time) are natural numbers of 1/Sub ms.    *)
(* A magnitude in milliseconds is the pair <<whole, frac>>, standing for   *)
(* whole + frac/Sub milliseconds.                                          *)
(***************************************************************************)
EXTENDS Integers, Sequences, FiniteSets

\* ---------------------------------------------------------------- bounds
\* Sub-millisecond resolution of the durations of the model.
Sub == 2
\* Caller operations are accepted while the log is shorter than this.
MaxLog == 5
\* The poll counter saturates here.
MaxPolls == 2
\* A small transit time (whole ms) that callers pass and devices start with.
MaxTransit == 2

\* ------------------------------------------------------------- constants
\* class Position(Enum)
one == 1
two == 2
moving == 0
Position == {one, two, moving}

\* polling_period='200ms', the default of __init__ and _start_polling
DefaultPollingMs == 200

\* A duration of n whole milliseconds.
Ms(n) == n * Sub

\* Serial numbers: "ff1" is connected, "ff9" is not.
Serials == {"ff1", "ff9"}
Discoverable == {"ff1"}

\* transit_time='500ms', the default of set_transit_time
DefaultTransitMs == 500

\* Durations callers pass: the defaults, and values off the millisecond grid.
PollingPeriods == {Ms(DefaultPollingMs), Ms(DefaultPollingMs) + 1}
TransitTimes == {Ms(DefaultTransitMs), Ms(MaxTransit), Ms(MaxTransit) + 1}

\* ------------------------------------------------------- unit conversion
\* quantity.to('ms').magnitude : the magnitude in milliseconds, unrounded.
ToMsMagnitude(d) == <<d \div Sub, d % Sub>>

\* Q_(t, 'ms') : the duration of t whole milliseconds.
FromMs(t) == Ms(t)

\* d rounded to whole milliseconds (half up), as a duration.
RoundToMs(d) == Ms((2 * d + Sub) \div (2 * Sub))

IsWhole(m) == m[2] = 0

\* ------------------------------------------------------------ native log
Call(fn, args) == [fn |-> fn, args |-> args]

VARIABLES
    obj,            \* "none" | "open" | "failed" | "closed"
    serial,         \* self.serial
    polling_period, \* self.polling_period (a magnitude), <<>> before it is set
    log,            \* native calls made so far, in order
    mark,           \* Len(log) when the latest caller operation started
    op,             \* the latest caller operation and its argument
    result,         \* its outcome
    ret,            \* <<value>> returned by it, <<>> if none
    pc,             \* move_and_wait's position: "idle" | "sleep" | "poll"
    polls,          \* GetPosition calls made by the running loop (saturating)
    lastRead,       \* value of the latest GetPosition
    current_position, \* move_and_wait's local: the position read at its start
    devPos,         \* position the device reports at its latest poll
    devTarget,      \* position the device has been commanded to
    devTransit,     \* transit time stored in the device, whole ms
    jammed          \* the mechanism is stuck and will not move again

vars == <<obj, serial, polling_period, log, mark, op, result, ret, pc, polls,
          lastRead, current_position, devPos, devTarget, devTransit, jammed>>

devVars == <<devPos, devTarget, devTransit, jammed>>

connected == serial \in Discoverable

Init ==
    /\ obj = "none"
    /\ serial = ""
    /\ polling_period = <<>>
    /\ log = <<>>
    /\ mark = 0
    /\ op = [name |-> "none", arg |-> <<>>]
    /\ result = "none"
    /\ ret = <<>>
    /\ pc = "idle"
    /\ polls = 0
    /\ lastRead = moving
    /\ current_position = moving
    /\ devPos \in {one, two}
    /\ devTarget = devPos
    /\ devTransit \in {MaxTransit, DefaultTransitMs}
    /\ jammed = FALSE


\* ------------------------------------------------ the native controller
\* What GetPosition can return: the polled position of a connected device;
\* a handle that was never opened successfully returns anything.
NativeGetPosition == IF connected THEN {devPos} ELSE Position

NativeGetTransitTime == IF connected THEN {devTransit} ELSE {MaxTransit}

\* An integer parameter that is handed a magnitude off the millisecond grid:
\* the foreign-function layer either refuses it or truncates it.
NativeIntOutcomes(m) == IF IsWhole(m) THEN {"ok"} ELSE {"ok", "TypeError"}

\* MoveToPosition(p): the device takes p as its commanded position.
NativeMoveTarget(calls) ==
    LET moves == {i \in 1 .. Len(calls) : calls[i].fn = "MoveToPosition"}
    IN  IF connected /\ moves # {}
        THEN calls[CHOOSE i \in moves : \A j \in moves : j <= i].args[1]
        ELSE devTarget

DeviceDepart ==
    /\ ~jammed
    /\ devPos \in {one, two}
    /\ devPos # devTarget
    /\ devPos' = moving
    /\ UNCHANGED <<obj, serial, polling_period, log, mark, op, result, ret,
                   pc, polls, lastRead, current_position, devTarget, devTransit, jammed>>

DeviceArrive ==
    /\ ~jammed
    /\ devPos = moving
    /\ devPos' = devTarget
    /\ UNCHANGED <<obj, serial, polling_period, log, mark, op, result, ret,
                   pc, polls, lastRead, current_position, devTarget, devTransit, jammed>>

DeviceJam ==
    /\ ~jammed
    /\ jammed' = TRUE
    /\ UNCHANGED <<obj, serial, polling_period, log, mark, op, result, ret,
                   pc, polls, lastRead, current_position, devPos, devTarget, devTransit>>

\* isValidPosition with `and` in place of `or`: only a non-Position is refused.
isValidPositionAnd(position) ==
    LET ismoving == position = moving
        isposition == position \in Position
    IN  ~(ismoving /\ ~isposition)

\* ------------------------------------------------------------ the driver
\* Filter_Flipper.isValidPosition
isValidPosition(position) ==
    LET ismoving == position = moving
        isposition == position \in Position
    IN  ~(ismoving \/ ~isposition)

\* Filter_Flipper.__init__ : Open, LoadSettings, _start_polling
ConstructCalls(m) ==
    <<Call("Open", <<>>), Call("LoadSettings", <<>>), Call("StartPolling", m)>>

\* Filter_Flipper._start_polling : the value handed to StartPolling
StartPollingArg(polling_period_q) == ToMsMagnitude(polling_period_q)

\* Filter_Flipper.close
CloseCalls == <<Call("Close", <<>>)>>

\* move_to without its validity check.
MoveToCallsUnchecked(position) == <<Call("MoveToPosition", <<position>>)>>

\* Filter_Flipper.move_to
MoveToCalls(position) ==
    IF ~isValidPosition(position)
    THEN <<>>
    ELSE <<Call("MoveToPosition", <<position>>)>>

MoveToResult(position) ==
    IF ~isValidPosition(position) THEN "ValueError" ELSE "ok"

\* flip commanding the position it has just read.
FlipCallsSame(position) ==
    IF position = one THEN MoveToCalls(one)
    ELSE IF position = two THEN MoveToCalls(two)
    ELSE <<>>

\* Filter_Flipper.flip, given the position it has read
FlipCalls(position) ==
    IF position = one THEN MoveToCalls(two)
    ELSE IF position = two THEN MoveToCalls(one)
    ELSE <<>>

FlipResult(position) ==
    IF position = one THEN MoveToResult(two)
    ELSE IF position = two THEN MoveToResult(one)
    ELSE "Exception"

\* move_and_wait without the `current_position != position` test.
MoveAndWaitEntryAlways(cur, position) ==
    IF ~isValidPosition(position) THEN "ValueError" ELSE "pending"

\* Filter_Flipper.move_and_wait up to its first sleep, given the position cur
\* it has read: "ValueError", "ok" (already there) or "pending".
MoveAndWaitEntry(cur, position) ==
    IF ~isValidPosition(position) THEN "ValueError"
    ELSE IF cur # position THEN "pending"
    ELSE "ok"

MoveAndWaitCalls(cur, position) ==
    IF MoveAndWaitEntry(cur, position) = "pending"
    THEN <<Call("GetTransitTime", <<>>)>> \o MoveToCalls(position)
    ELSE <<>>

\* The loop leaving as soon as the device reports any stable position.
LoopContinuesWhileMoving(read, position) == read = moving

\* The loop giving up after MaxPolls queries.
LoopContinuesTimeout(read, position) == read # position /\ polls < MaxPolls

\* The loop test of move_and_wait: TRUE when the loop goes on.
LoopContinues(read, position) == read # position

\* Filter_Flipper.set_transit_time : the value handed to SetTransitTime
SetTransitArg(transit_time) == ToMsMagnitude(transit_time)

Ready == obj = "open" /\ pc = "idle" /\ Len(log) < MaxLog

Construct(s, p) ==
    /\ obj = "none"
    /\ serial' = s
    /\ polling_period' = StartPollingArg(p)
    /\ mark' = Len(log)
    /\ log' = log \o ConstructCalls(StartPollingArg(p))
    /\ op' = [name |-> "__init__", arg |-> <<p>>]
    /\ \E outcome \in NativeIntOutcomes(StartPollingArg(p)) :
          /\ result' = outcome
          /\ obj' = IF outcome = "ok" THEN "open" ELSE "failed"
    /\ ret' = <<>>
    /\ UNCHANGED <<pc, polls, lastRead, current_position, devPos, devTarget, devTransit, jammed>>

Close ==
    /\ obj = "open"
    /\ pc = "idle"
    /\ mark' = Len(log)
    /\ log' = log \o CloseCalls
    /\ op' = [name |-> "close", arg |-> <<>>]
    /\ result' = "ok"
    /\ ret' = <<>>
    /\ obj' = "closed"
    /\ UNCHANGED <<serial, polling_period, pc, polls, lastRead, current_position, devPos,
                   devTarget, devTransit, jammed>>

GetPosition ==
    /\ Ready
    /\ \E r \in NativeGetPosition :
          /\ lastRead' = r
          /\ ret' = <<r>>
    /\ mark' = Len(log)
    /\ log' = Append(log, Call("GetPosition", <<>>))
    /\ op' = [name |-> "get_position", arg |-> <<>>]
    /\ result' = "ok"
    /\ UNCHANGED <<current_position, obj, serial, polling_period, pc, polls, devPos, devTarget,
                   devTransit, jammed>>

MoveTo(position) ==
    /\ Ready
    /\ mark' = Len(log)
    /\ log' = log \o MoveToCalls(position)
    /\ op' = [name |-> "move_to", arg |-> <<position>>]
    /\ result' = MoveToResult(position)
    /\ ret' = <<>>
    /\ devTarget' = NativeMoveTarget(MoveToCalls(position))
    /\ UNCHANGED <<obj, serial, polling_period, pc, polls, lastRead, current_position, devPos,
                   devTransit, jammed>>

Flip ==
    /\ Ready
    /\ \E r \in NativeGetPosition :
          /\ lastRead' = r
          /\ log' = Append(log, Call("GetPosition", <<>>)) \o FlipCalls(r)
          /\ result' = FlipResult(r)
          /\ devTarget' = NativeMoveTarget(FlipCalls(r))
    /\ mark' = Len(log)
    /\ op' = [name |-> "flip", arg |-> <<>>]
    /\ ret' = <<>>
    /\ UNCHANGED <<current_position, obj, serial, polling_period, pc, polls, devPos, devTransit,
                   jammed>>

MoveAndWait(position) ==
    /\ Ready
    /\ \E r \in NativeGetPosition :
          /\ lastRead' = r
          /\ current_position' = r
          /\ log' = Append(log, Call("GetPosition", <<>>))
                       \o MoveAndWaitCalls(r, position)
          /\ result' = MoveAndWaitEntry(r, position)
          /\ pc' = IF MoveAndWaitEntry(r, position) = "pending"
                   THEN "sleep" ELSE "idle"
          /\ devTarget' = NativeMoveTarget(MoveAndWaitCalls(r, position))
    /\ mark' = Len(log)
    /\ op' = [name |-> "move_and_wait", arg |-> <<position>>]
    /\ ret' = <<>>
    /\ polls' = 0
    /\ UNCHANGED <<obj, serial, polling_period, devPos, devTransit, jammed>>

\* One turn of `while self.get_position() != position`, after a sleep.
MoveAndWaitPoll ==
    /\ pc \in {"sleep", "poll"}
    /\ \E r \in NativeGetPosition :
          /\ lastRead' = r
          /\ IF LoopContinues(r, op.arg[1])
             THEN pc' = "poll" /\ result' = result
             ELSE pc' = "idle" /\ result' = "ok"
    /\ polls' = IF polls < MaxPolls THEN polls + 1 ELSE polls
    /\ UNCHANGED <<current_position, obj, serial, polling_period, log, mark, op, ret, devPos,
                   devTarget, devTransit, jammed>>

Home ==
    /\ Ready
    /\ mark' = Len(log)
    /\ log' = Append(log, Call("Home", <<>>))
    /\ op' = [name |-> "home", arg |-> <<>>]
    /\ result' = "ok"
    /\ ret' = <<>>
    /\ \E h \in {one, two} : devTarget' = IF connected THEN h ELSE devTarget
    /\ UNCHANGED <<obj, serial, polling_period, pc, polls, lastRead, current_position, devPos,
                   devTransit, jammed>>

GetTransitTime ==
    /\ Ready
    /\ mark' = Len(log)
    /\ log' = Append(log, Call("GetTransitTime", <<>>))
    /\ op' = [name |-> "get_transit_time", arg |-> <<>>]
    /\ result' = "ok"
    /\ \E t \in NativeGetTransitTime : ret' = <<FromMs(t)>>
    /\ UNCHANGED <<obj, serial, polling_period, pc, polls, lastRead, current_position, devPos,
                   devTarget, devTransit, jammed>>

SetTransitTime(transit_time) ==
    /\ Ready
    /\ mark' = Len(log)
    /\ log' = Append(log, Call("SetTransitTime", SetTransitArg(transit_time)))
    /\ op' = [name |-> "set_transit_time", arg |-> <<transit_time>>]
    /\ ret' = <<>>
    /\ \E outcome \in NativeIntOutcomes(SetTransitArg(transit_time)) :
          /\ result' = outcome
          /\ devTransit' = IF connected /\ outcome = "ok"
                           THEN SetTransitArg(transit_time)[1]
                           ELSE devTransit
    /\ UNCHANGED <<obj, serial, polling_period, pc, polls, lastRead, current_position, devPos,
                   devTarget, jammed>>

Next ==
    \/ \E s \in Serials, p \in PollingPeriods : Construct(s, p)
    \/ Close
    \/ GetPosition
    \/ \E position \in Position : MoveTo(position)
    \/ Flip
    \/ \E position \in Position : MoveAndWait(position)
    \/ MoveAndWaitPoll
    \/ Home
    \/ GetTransitTime
    \/ \E d \in TransitTimes : SetTransitTime(d)
    \/ DeviceDepart
    \/ DeviceArrive
    \/ DeviceJam

Spec == Init /\ [][Next]_vars

\* The caller's thread keeps running, and a mechanism that is not jammed
\* completes the motion it was commanded to make.
FairSpec ==
    /\ Spec
    /\ WF_vars(MoveAndWaitPoll)
    /\ WF_vars(DeviceDepart)
    /\ WF_vars(DeviceArrive)

\* ------------------------------------------------------------ properties
\* The native calls made by the latest caller operation.
CallsSinceMark == SubSeq(log, mark + 1, Len(log))

IsMove(c) == c.fn = "MoveToPosition"

Moves(calls) == SelectSeq(calls, IsMove)

Fns(calls) == [i \in 1 .. Len(calls) |-> calls[i].fn]

Indices(fn) == {i \in 1 .. Len(log) : log[i].fn = fn}

QueryCall == Call("GetPosition", <<>>)

MoveCall(p) == Call("MoveToPosition", <<p>>)

InMoveAndWait(position) == op.name = "move_and_wait" /\ op.arg = <<position>>

\* C1: whatever the device reports (one, two or moving), move_to(moving)
\* raises ValueError, issues no native call, and leaves the device as it was.
MoveToMovingRejected ==
    [][(op'.name = "move_to" /\ op'.arg = <<moving>> /\ op' # op)
          => /\ result' = "ValueError"
             /\ log' = log
             /\ devVars' = devVars]_vars

MoveToMovingWhileMoving ==
    /\ op.name = "move_to"
    /\ op.arg = <<moving>>
    /\ result = "ValueError"
    /\ connected
    /\ devPos = moving

\* C2: flip queries the position once; having read one it issues exactly one
\* move, to two; having read two exactly one move, to one; having read moving
\* it raises and issues no move.
FlipCommandsOtherPosition ==
    op.name = "flip" =>
        /\ lastRead = one =>
              CallsSinceMark = <<QueryCall, MoveCall(two)>> /\ result = "ok"
        /\ lastRead = two =>
              CallsSinceMark = <<QueryCall, MoveCall(one)>> /\ result = "ok"
        /\ lastRead = moving =>
              CallsSinceMark = <<QueryCall>> /\ result = "Exception"

FlipFromTwo ==
    /\ op.name = "flip"
    /\ connected
    /\ lastRead = two
    /\ CallsSinceMark = <<QueryCall, MoveCall(one)>>

\* C3: move_and_wait(target), target one or two, when the position read at
\* its start is target: the only native call is that query (no transit-time
\* read, no move), the loop is never entered, and the call has returned.
MoveAndWaitNoOpAtTarget ==
    \A target \in {one, two} :
        (InMoveAndWait(target) /\ current_position = target) =>
            /\ CallsSinceMark = <<QueryCall>>
            /\ pc = "idle"
            /\ polls = 0
            /\ result = "ok"

MoveAndWaitAlreadyThere ==
    /\ InMoveAndWait(two)
    /\ connected
    /\ current_position = two
    /\ result = "ok"

\* C4: move_and_wait(target), target one or two, when the position read at
\* its start differs from target: exactly one move command is issued, to
\* target; the call has returned only if a later query read target; and it
\* is still waiting whenever its latest query read anything else.
MoveAndWaitReturnsAtTarget ==
    \A target \in {one, two} :
        (InMoveAndWait(target) /\ current_position # target) =>
            /\ Moves(CallsSinceMark) = <<MoveCall(target)>>
            /\ pc = "idle" => (polls >= 1 /\ lastRead = target /\ result = "ok")
            /\ pc # "idle" => result = "pending"
            /\ pc = "poll" => lastRead # target

MoveAndWaitArrivedAfterPolls ==
    /\ InMoveAndWait(two)
    /\ connected
    /\ current_position = one
    /\ pc = "idle"
    /\ polls = MaxPolls
    /\ result = "ok"

\* C5: a running move_and_wait on a connected device returns if the device
\* comes to report the target (it does unless the mechanism jams); while a
\* jammed device reports another position the call neither returns nor
\* raises, however many polls it has made.
MoveAndWaitTerminatesIffArrival ==
    /\ (pc # "idle" /\ connected) ~> (pc = "idle" \/ jammed)
    /\ [][(pc # "idle" /\ connected /\ jammed /\ devPos # op.arg[1])
             => (pc' # "idle" /\ result' = "pending")]_vars

MoveAndWaitStuck ==
    /\ pc = "poll"
    /\ connected
    /\ jammed
    /\ devPos # op.arg[1]
    /\ polls = MaxPolls
    /\ result = "pending"

\* C10: every MoveToPosition ever issued carries 1 or 2; isValidPosition is
\* true exactly for one and two; move_and_wait(moving) raises ValueError
\* without issuing a move command.
MoveCommandsAreStable ==
    /\ \A i \in Indices("MoveToPosition") : log[i].args[1] \in {1, 2}
    /\ \A p \in Position : isValidPosition(p) <=> p \in {one, two}
    /\ InMoveAndWait(moving) =>
          /\ result = "ValueError"
          /\ Moves(CallsSinceMark) = <<>>
          /\ pc = "idle"

MoveAndWaitMovingRejected ==
    /\ InMoveAndWait(moving)
    /\ result = "ValueError"
    /\ devPos = moving
    /\ Indices("MoveToPosition") # {}

\* C6: the value handed to SetTransitTime is a whole number of milliseconds,
\* and get_transit_time right after set_transit_time(d) returns d rounded to
\* whole milliseconds.
SetThenGetRoundsToMs ==
    [][/\ (op'.name = "set_transit_time" /\ log' # log)
            => IsWhole(log'[Len(log')].args)
       /\ (op.name = "set_transit_time" /\ op'.name = "get_transit_time"
             /\ connected)
            => ret' = <<RoundToMs(op.arg[1])>>]_vars

\* C7: constructing with a serial number that is not discoverable fails with
\* a not-found error, and no Open, LoadSettings or StartPolling is issued.
UnknownSerialNotOpened ==
    (op.name = "__init__" /\ ~connected) =>
        /\ result = "InstrumentNotFound"
        /\ Indices("Open") \cup Indices("LoadSettings")
             \cup Indices("StartPolling") = {}

\* C8: once close() has run, exactly one StopPolling and exactly one Close
\* have been issued, the StopPolling before the Close.
CloseStopsPollingFirst ==
    obj = "closed" =>
        /\ Cardinality(Indices("StopPolling")) = 1
        /\ Cardinality(Indices("Close")) = 1
        /\ \A i \in Indices("StopPolling"), j \in Indices("Close") : i < j

\* C9: construction of a discoverable device issues exactly Open, then
\* LoadSettings, then StartPolling, and StartPolling is handed the requested
\* period as a whole number of milliseconds; no position query or move
\* command precedes StartPolling.
ConstructOpensLoadsPolls ==
    (obj # "none" /\ connected) =>
        /\ Fns(SubSeq(log, 1, 3)) = <<"Open", "LoadSettings", "StartPolling">>
        /\ Cardinality(Indices("Open")) = 1
        /\ Cardinality(Indices("LoadSettings")) = 1
        /\ Cardinality(Indices("StartPolling")) = 1
        /\ IsWhole(log[3].args)
        /\ IsWhole(polling_period)

=============================================================================
